---- MODULE Spec2Model ----
(***************************************************************************)
(* peroxide-discord: the execution core of src/main.rs.                    *)
(*                                                                         *)
(* Threads modelled: the message handlers (Handler::message, one task per  *)
(* inbound message), the interpreter thread spawned by main (the Worker),  *)
(* and the interruptor thread spawned by run_string for one execution (the *)
(* Deadline Guard).  Time is abstracted: a timer may expire at any moment  *)
(* at which the thing it waits for has not happened.                       *)
(***************************************************************************)
EXTENDS Naturals, FiniteSets

\* Number of concurrently dispatched message handlers (each handles one message).
NumHandlers == 2

Handlers == 1..NumHandlers

\* Command texts, by what the interpreter does with them:
\*   bad  - does not parse
\*   loop - loops forever, passing check points
\*   def  - defines x and evaluates to 10
\*   use  - reads x: evaluates to 10 if x is defined, a runtime error otherwise
Cmds == {"bad", "loop", "def", "use"}

VARIABLES
    wpc,        \* Worker thread: position in main's closure / run_string
    cur,        \* Worker: handler whose (command, rc) pair is being served, 0 if none
    slot,       \* request channel: pair handed to the blocked receiver, 0 if none
    closed,     \* request channel: the SyncSender in the data map has been dropped
    env,        \* interpreter: x is defined in the global environment
    intr,       \* interpreter: the interruptor flag
    evalres,    \* run_string: `result` of parse_compile_run
    res,        \* value of run_string, handed to rc.send
    gpc,        \* interruptor thread of the execution in progress
    gmsg,       \* run_string's (send, recv) channel holds the () message
    hpc,        \* handler: position in Handler::message
    hcmd,       \* handler: the command captured from the message ("" if none)
    hres,       \* handler: `result`
    wlock,      \* holder of ctx.data's write lock, 0 if free
    mutex,      \* holder of the Mutex around the SyncSender, 0 if free
    reply,      \* per handler: value travelling through (response_sender, response_receiver)
    running,    \* observation: requests on which run_string is active
    delivered,  \* observation: number of rc.send hand-overs per handler
    envAtEntry, \* observation: env when run_string was entered
    qexpired,   \* observation: the queue-access deadline passed while the handler waited
    panicAt,    \* observation: wpc at the time the handler panicked ("" if it has not)
    intime,     \* observation: parse_compile_run ended by itself before the 5 s timer expired
    joined,     \* observation: run_string has joined the interruptor thread
    gasserts,   \* observation: interrupt() calls made by the current interruptor thread
    liveGuards, \* observation: interruptor threads spawned and not yet finished
    strays      \* interruptor threads left unjoined that have not yet finished

vars == <<wpc, cur, slot, closed, env, intr, evalres, res, gpc, gmsg, hpc, hcmd, hres,
          wlock, mutex, reply, running, delivered, envAtEntry, qexpired, panicAt,
          intime, joined, gasserts, liveGuards, strays>>

wvars == <<wpc, cur, slot, env, intr, evalres, res, gmsg, running, envAtEntry>>
hvars == <<hpc, hcmd, hres, wlock, mutex, panicAt>>
ovars == <<intime, joined, gasserts, liveGuards, strays>>

\* Result<String, String>; `of` records whose command the value is the outcome of.
NoRes == [kind |-> "none", text |-> "", of |-> 0]
OkRes(t, h) == [kind |-> "ok", text |-> t, of |-> h]
ErrRes(t, h) == [kind |-> "err", text |-> t, of |-> h]

QueueTimeoutText == "timeout waiting for interpreter lock"

\* peroxide::read::read succeeds on the command text.
Parses(c) == c # "bad"

\* Mutant of RecvReady: requests are accepted while a command is still in hand.
RecvReadyBusy == wpc \in {"recv", "parse", "run", "cancel", "join", "deliver", "loop"}

\* The worker is blocked in recv.recv(): a rendezvous try_send succeeds only then.
RecvReady == wpc = "recv"

\* The interruptor thread has not finished (its closure still owns recv).
\* The interruptor thread still holds recv: its closure has not returned.
GuardAlive == gpc \in {"waiting", "fired", "interrupted"}

Init ==
    /\ wpc = "init"
    /\ cur = 0
    /\ slot = 0
    /\ closed = FALSE
    /\ env = FALSE
    /\ intr = FALSE
    /\ evalres = NoRes
    /\ res = NoRes
    /\ gpc = "none"
    /\ gmsg = FALSE
    /\ hpc = [h \in Handlers |-> "idle"]
    /\ hcmd = [h \in Handlers |-> ""]
    /\ hres = [h \in Handlers |-> NoRes]
    /\ wlock = 0
    /\ mutex = 0
    /\ reply = [h \in Handlers |-> NoRes]
    /\ running = {}
    /\ delivered = [h \in Handlers |-> 0]
    /\ envAtEntry = FALSE
    /\ qexpired = [h \in Handlers |-> FALSE]
    /\ panicAt = [h \in Handlers |-> ""]
    /\ intime = FALSE
    /\ joined = FALSE
    /\ gasserts = 0
    /\ liveGuards = 0
    /\ strays = 0

----------------------------------------------------------------------------
(* The Worker: the thread spawned by main.                                 *)

\* InterruptingInterpreter::new(): initialize(..).unwrap() panics the thread
\* when the library source cannot be loaded.
WorkerInit ==
    /\ wpc = "init"
    /\ \E ok \in BOOLEAN : wpc' = IF ok THEN "recv" ELSE "initfail"
    /\ UNCHANGED <<cur, slot, closed, env, intr, evalres, res, gpc, gmsg, running,
                   envAtEntry, reply, delivered, qexpired>>
    /\ UNCHANGED hvars
    /\ UNCHANGED ovars

\* recv.recv() returns the pair a handler handed over; run_string is entered.
WorkerRecv ==
    /\ RecvReady
    /\ slot # 0
    /\ cur' = slot
    /\ slot' = 0
    /\ wpc' = "parse"
    /\ running' = running \cup {slot}
    /\ envAtEntry' = env
    /\ UNCHANGED <<closed, env, intr, evalres, res, gpc, gmsg, reply, delivered, qexpired>>
    /\ UNCHANGED hvars
    /\ UNCHANGED ovars

\* recv.recv() returns Err once every sender is gone: the while-let loop ends.
WorkerExit ==
    /\ wpc = "recv"
    /\ slot = 0
    /\ closed
    /\ wpc' = "exited"
    /\ UNCHANGED <<cur, slot, closed, env, intr, evalres, res, gpc, gmsg, running,
                   envAtEntry, reply, delivered, qexpired>>
    /\ UNCHANGED hvars
    /\ UNCHANGED ovars

\* Mutant of WorkerParse: the interruptor thread is spawned before the text is
\* read, so a parse failure returns with the thread running.
WorkerParseSpawnFirst ==
    /\ wpc = "parse"
    /\ gpc' = "waiting"
    /\ gmsg' = FALSE
    /\ IF Parses(hcmd[cur])
       THEN /\ wpc' = "run"
            /\ gasserts' = 0
            /\ liveGuards' = liveGuards + 1
            /\ \E keep \in BOOLEAN : intr' = (intr /\ keep)
            /\ UNCHANGED <<res, running>>
       ELSE /\ wpc' = "deliver"
            /\ UNCHANGED <<gasserts, liveGuards, intr>>
            /\ res' = ErrRes("parse error", cur)
            /\ running' = running \ {cur}
    /\ UNCHANGED <<cur, slot, closed, env, evalres, envAtEntry, reply, delivered,
                   qexpired>>
    /\ UNCHANGED hvars
    /\ UNCHANGED <<intime, joined, strays>>

\* run_string, lines 36-45: read the text; on failure return the parse error,
\* otherwise create the channel, spawn the interruptor thread and enter
\* parse_compile_run.  Whether the interpreter clears an interruptor flag left
\* set by an earlier execution when a run starts is not decided by this
\* repository: both outcomes are allowed.
WorkerParse ==
    /\ wpc = "parse"
    /\ IF Parses(hcmd[cur])
       THEN /\ wpc' = "run"
            /\ gasserts' = 0
            /\ liveGuards' = liveGuards + 1
            /\ \E keep \in BOOLEAN : intr' = (intr /\ keep)
            /\ gpc' = "waiting"
            /\ gmsg' = FALSE
            /\ UNCHANGED <<res, running>>
       ELSE /\ wpc' = "deliver"
            /\ UNCHANGED <<gasserts, liveGuards, intr>>
            /\ res' = ErrRes("parse error", cur)
            /\ running' = running \ {cur}
            /\ UNCHANGED <<gpc, gmsg>>
    /\ UNCHANGED <<cur, slot, closed, env, evalres, envAtEntry, reply, delivered,
                   qexpired>>
    /\ UNCHANGED hvars
    /\ UNCHANGED <<intime, joined, strays>>

\* parse_compile_run runs to its own end (never, for a command that loops).
EvalFinish ==
    /\ wpc = "run"
    /\ hcmd[cur] # "loop"
    /\ evalres' = IF hcmd[cur] = "def" \/ env THEN OkRes("10", cur)
                  ELSE ErrRes("runtime error", cur)
    /\ env' = IF hcmd[cur] = "def" THEN TRUE ELSE env
    /\ wpc' = "cancel"
    /\ UNCHANGED <<cur, slot, closed, intr, res, gpc, gmsg, running, envAtEntry, reply,
                   delivered, qexpired>>
    /\ UNCHANGED hvars
    /\ intime' = (gpc = "waiting")
    /\ UNCHANGED <<joined, gasserts, liveGuards, strays>>

\* parse_compile_run observes the interruptor flag at a check point and unwinds;
\* what a partly run definition leaves behind is the interpreter's business.
EvalInterrupted ==
    /\ wpc = "run"
    /\ intr
    /\ intr' = FALSE
    /\ evalres' = ErrRes("interrupted", cur)
    /\ \E e \in (IF hcmd[cur] = "def" THEN {env, TRUE} ELSE {env}) : env' = e
    /\ wpc' = "cancel"
    /\ UNCHANGED <<cur, slot, closed, res, gpc, gmsg, running, envAtEntry, reply,
                   delivered, qexpired>>
    /\ UNCHANGED hvars
    /\ intime' = FALSE
    /\ UNCHANGED <<joined, gasserts, liveGuards, strays>>

\* run_string, lines 46-47: send.send(()) fails when the interruptor thread's
\* closure has already returned and dropped recv; `?` then returns that error
\* at once, and the JoinHandle is dropped without a join: a thread that has not
\* yet finished is left to finish by itself.
WorkerCancel ==
    /\ wpc = "cancel"
    /\ IF GuardAlive
       THEN /\ gmsg' = TRUE
            /\ wpc' = "join"
            /\ UNCHANGED <<res, running, gpc, strays>>
       ELSE /\ wpc' = "deliver"
            /\ res' = ErrRes("error sending res", cur)
            /\ running' = running \ {cur}
            /\ gpc' = "none"
            /\ strays' = IF gpc = "closing" THEN strays + 1 ELSE strays
            /\ UNCHANGED gmsg
    /\ UNCHANGED <<cur, slot, closed, env, intr, evalres, envAtEntry, reply,
                   delivered, qexpired>>
    /\ UNCHANGED hvars
    /\ UNCHANGED <<intime, joined, gasserts, liveGuards>>

\* Mutant of WorkerJoin: run_string returns without waiting for the interruptor
\* thread, which goes on by itself.
WorkerJoinNoWait ==
    /\ wpc = "join"
    /\ wpc' = "deliver"
    /\ res' = evalres
    /\ running' = running \ {cur}
    /\ UNCHANGED <<gpc, gmsg>>
    /\ UNCHANGED <<cur, slot, closed, env, intr, evalres, envAtEntry, reply,
                   delivered, qexpired>>
    /\ UNCHANGED hvars
    /\ joined' = TRUE
    /\ UNCHANGED <<intime, gasserts, liveGuards, strays>>

\* run_string, lines 48-49: join the interruptor thread, render the result; the
\* thread handle and the channel go out of scope.
WorkerJoin ==
    /\ wpc = "join"
    /\ gpc = "exited"
    /\ wpc' = "deliver"
    /\ res' = evalres
    /\ running' = running \ {cur}
    /\ gpc' = "none"
    /\ gmsg' = FALSE
    /\ UNCHANGED <<cur, slot, closed, env, intr, evalres, envAtEntry, reply,
                   delivered, qexpired>>
    /\ UNCHANGED hvars
    /\ joined' = TRUE
    /\ UNCHANGED <<intime, gasserts, liveGuards, strays>>

\* rc.send(..).unwrap(): a rendezvous with the handler's response_receiver.recv();
\* it fails, and the unwrap panics, when the receiver has been dropped.
WorkerDeliver ==
    /\ wpc = "deliver"
    /\ hpc[cur] \in {"wait", "gone"}
    /\ IF hpc[cur] = "wait"
       THEN /\ reply' = [reply EXCEPT ![cur] = res]
            /\ delivered' = [delivered EXCEPT ![cur] = @ + 1]
            /\ wpc' = "loop"
       ELSE /\ wpc' = "panicked"
            /\ UNCHANGED <<reply, delivered>>
    /\ UNCHANGED <<cur, slot, closed, env, intr, evalres, res, gpc, gmsg, running,
                   envAtEntry, qexpired>>
    /\ UNCHANGED hvars
    /\ UNCHANGED ovars

\* Mutant of WorkerLoop: a fresh interpreter is made for every command.
WorkerLoopFreshInterpreter ==
    /\ wpc = "loop"
    /\ wpc' = "recv"
    /\ cur' = 0
    /\ evalres' = NoRes
    /\ res' = NoRes
    /\ envAtEntry' = FALSE
    /\ env' = FALSE
    /\ UNCHANGED <<slot, closed, intr, gpc, gmsg, running, reply, delivered,
                   qexpired>>
    /\ UNCHANGED hvars
    /\ intime' = FALSE
    /\ joined' = FALSE
    /\ gasserts' = 0
    /\ UNCHANGED <<liveGuards, strays>>

\* The loop body ends (rc is dropped) and the worker calls recv.recv() again.
WorkerLoop ==
    /\ wpc = "loop"
    /\ wpc' = "recv"
    /\ cur' = 0
    /\ evalres' = NoRes
    /\ res' = NoRes
    /\ envAtEntry' = FALSE
    /\ UNCHANGED <<slot, closed, env, intr, gpc, gmsg, running, reply, delivered,
                   qexpired>>
    /\ UNCHANGED hvars
    /\ intime' = FALSE
    /\ joined' = FALSE
    /\ gasserts' = 0
    /\ UNCHANGED <<liveGuards, strays>>

WorkerNext ==
    \/ WorkerInit \/ WorkerRecv \/ WorkerParse \/ EvalFinish \/ EvalInterrupted
    \/ WorkerCancel \/ WorkerJoin \/ WorkerDeliver \/ WorkerLoop

----------------------------------------------------------------------------
(* The Deadline Guard: the thread spawned at run_string line 40.           *)

\* Mutant of GuardCancelled: the test is is_ok() where the code has is_err(),
\* so the thread interrupts when it is told that the execution has ended.
GuardCancelledInverted ==
    /\ gpc = "waiting"
    /\ gmsg
    /\ gpc' = "fired"
    /\ UNCHANGED <<wvars, closed, reply, delivered, qexpired>>
    /\ UNCHANGED hvars
    /\ UNCHANGED ovars

\* recv_timeout returns Ok(()): the closure returns without interrupting, and
\* recv is dropped.
GuardCancelled ==
    /\ gpc = "waiting"
    /\ gmsg
    /\ gpc' = "closing"
    /\ UNCHANGED <<wvars, closed, reply, delivered, qexpired>>
    /\ UNCHANGED hvars
    /\ UNCHANGED ovars

\* recv_timeout returns Err(Timeout): five seconds passed with no message.
GuardTimeout ==
    /\ gpc = "waiting"
    /\ ~gmsg
    /\ gpc' = "fired"
    /\ UNCHANGED <<wvars, closed, reply, delivered, qexpired>>
    /\ UNCHANGED hvars
    /\ UNCHANGED ovars

\* interruptor_clone.interrupt()
GuardInterrupt ==
    /\ gpc = "fired"
    /\ gpc' = "interrupted"
    /\ intr' = TRUE
    /\ UNCHANGED <<wpc, cur, slot, closed, env, evalres, res, gmsg, running, envAtEntry,
                   reply, delivered, qexpired>>
    /\ UNCHANGED hvars
    /\ gasserts' = gasserts + 1
    /\ UNCHANGED <<intime, joined, liveGuards, strays>>

\* The closure returns after interrupt(): recv is dropped.
GuardExit ==
    /\ gpc = "interrupted"
    /\ gpc' = "closing"
    /\ UNCHANGED <<wvars, closed, reply, delivered, qexpired>>
    /\ UNCHANGED hvars
    /\ UNCHANGED ovars

\* The thread whose closure has returned finishes: a join on it returns.
GuardEnd ==
    /\ gpc = "closing"
    /\ gpc' = "exited"
    /\ liveGuards' = liveGuards - 1
    /\ UNCHANGED <<wvars, closed, reply, delivered, qexpired>>
    /\ UNCHANGED hvars
    /\ UNCHANGED <<intime, joined, gasserts, strays>>

\* An unjoined thread finishes.
StrayEnd ==
    /\ strays > 0
    /\ strays' = strays - 1
    /\ liveGuards' = liveGuards - 1
    /\ UNCHANGED <<wvars, closed, gpc, reply, delivered, qexpired>>
    /\ UNCHANGED hvars
    /\ UNCHANGED <<intime, joined, gasserts>>

GuardNext ==
    \/ GuardCancelled \/ GuardTimeout \/ GuardInterrupt \/ GuardExit \/ GuardEnd
    \/ StrayEnd

----------------------------------------------------------------------------
(* Handler::message, one task per inbound message.                         *)

\* Lines 70-100: a message without a command returns early; otherwise the
\* command is captured and the handler goes on to ctx.data.write().
HandlerMessage(h) ==
    /\ hpc[h] = "idle"
    /\ ~closed
    /\ \/ /\ hpc' = [hpc EXCEPT ![h] = "ignored"]
          /\ UNCHANGED hcmd
       \/ \E c \in Cmds :
            /\ hcmd' = [hcmd EXCEPT ![h] = c]
            /\ hpc' = [hpc EXCEPT ![h] = "wlock"]
    /\ UNCHANGED <<hres, wlock, mutex, panicAt>>
    /\ UNCHANGED <<wvars, closed, gpc, reply, delivered, qexpired>>
    /\ UNCHANGED ovars

\* Mutant of HandlerWriteLock: the data map is locked for reading, which does
\* not exclude other handlers.
HandlerReadLock(h) ==
    /\ hpc[h] = "wlock"
    /\ wlock' = h
    /\ hpc' = [hpc EXCEPT ![h] = "mlock"]
    /\ UNCHANGED <<hcmd, hres, mutex, panicAt>>
    /\ UNCHANGED <<wvars, closed, gpc, reply, delivered, qexpired>>
    /\ UNCHANGED ovars

\* Line 102: ctx.data.write().await, with no timeout.
HandlerWriteLock(h) ==
    /\ hpc[h] = "wlock"
    /\ wlock = 0
    /\ wlock' = h
    /\ hpc' = [hpc EXCEPT ![h] = "mlock"]
    /\ UNCHANGED <<hcmd, hres, mutex, panicAt>>
    /\ UNCHANGED <<wvars, closed, gpc, reply, delivered, qexpired>>
    /\ UNCHANGED ovars

\* Lines 105-108, 117: timeout(15s, send_channel.lock()).  The lock is taken when
\* it is free; while it is held by another task the timeout may expire.
HandlerLock(h) ==
    /\ hpc[h] = "mlock"
    /\ IF mutex = 0
       THEN /\ mutex' = h
            /\ hpc' = [hpc EXCEPT ![h] = "send"]
            /\ UNCHANGED hres
       ELSE /\ hres' = [hres EXCEPT ![h] = ErrRes(QueueTimeoutText, 0)]
            /\ hpc' = [hpc EXCEPT ![h] = "say"]
            /\ UNCHANGED mutex
    /\ UNCHANGED <<hcmd, wlock, panicAt>>
    /\ UNCHANGED <<wvars, closed, gpc, reply, delivered, qexpired>>
    /\ UNCHANGED ovars

\* Lines 109-111: channel.try_send(..).unwrap().  On the zero-capacity channel
\* try_send succeeds only if the worker is blocked in recv(); otherwise it is
\* Err(Full) or Err(Disconnected) and the unwrap panics the task, whose guards
\* are dropped by the unwinding.
HandlerTrySend(h) ==
    /\ hpc[h] = "send"
    /\ IF RecvReady /\ slot = 0
       THEN /\ slot' = h
            /\ hpc' = [hpc EXCEPT ![h] = "wait"]
            /\ UNCHANGED <<wlock, mutex, panicAt>>
       ELSE /\ hpc' = [hpc EXCEPT ![h] = "panicked"]
            /\ panicAt' = [panicAt EXCEPT ![h] = wpc]
            /\ wlock' = 0
            /\ mutex' = 0
            /\ UNCHANGED slot
    /\ UNCHANGED <<hcmd, hres>>
    /\ UNCHANGED <<wpc, cur, closed, env, intr, evalres, res, gpc, gmsg, running,
                   envAtEntry, reply, delivered, qexpired>>
    /\ UNCHANGED ovars

\* Lines 112-116: response_receiver.recv(); Err if rc was dropped unsent.  The
\* MutexGuard `channel` is dropped at the end of the match arm.
HandlerRecv(h) ==
    /\ hpc[h] = "wait"
    /\ \/ reply[h] # NoRes
       \/ wpc \in {"initfail", "panicked", "exited"}
    /\ hres' = [hres EXCEPT ![h] = IF reply[h] # NoRes THEN reply[h]
                                   ELSE ErrRes("receiving on a closed channel", 0)]
    /\ mutex' = 0
    /\ hpc' = [hpc EXCEPT ![h] = "say"]
    /\ UNCHANGED <<hcmd, wlock, panicAt>>
    /\ UNCHANGED <<wvars, closed, gpc, reply, delivered, qexpired>>
    /\ UNCHANGED ovars

\* Lines 119-131: render and post the reply; `data` (the write guard) is dropped
\* when the function returns.
HandlerReturn(h) ==
    /\ hpc[h] = "say"
    /\ hpc' = [hpc EXCEPT ![h] = "done"]
    /\ wlock' = 0
    /\ UNCHANGED <<hcmd, hres, mutex, panicAt>>
    /\ UNCHANGED <<wvars, closed, gpc, reply, delivered, qexpired>>
    /\ UNCHANGED ovars

HandlerNext(h) ==
    \/ HandlerMessage(h) \/ HandlerWriteLock(h) \/ HandlerLock(h)
    \/ HandlerTrySend(h) \/ HandlerRecv(h) \/ HandlerReturn(h)

----------------------------------------------------------------------------
(* Environment.                                                            *)

\* main, lines 171-174: client.start() returns and main ends; the client and
\* with it the SyncSender in the data map are dropped.
Shutdown ==
    /\ ~closed
    /\ \A h \in Handlers : hpc[h] \in {"idle", "ignored", "done", "panicked", "gone"}
    /\ closed' = TRUE
    /\ UNCHANGED <<wvars, gpc, reply, delivered, qexpired>>
    /\ UNCHANGED hvars
    /\ UNCHANGED ovars

\* The clock: the queue-access deadline (15 s) passes for a handler that is
\* still waiting for access while the worker is busy with another's command.
\* The deadline is longer than the interruptor's 5 s, so it passes only in an
\* execution whose interruptor timer has expired and whose parse_compile_run
\* has not yet returned.
QueueDeadline(h) ==
    /\ hpc[h] \in {"wlock", "mlock"}
    /\ cur # 0
    /\ cur # h
    /\ wpc = "run"
    /\ gpc # "waiting"
    /\ ~qexpired[h]
    /\ qexpired' = [qexpired EXCEPT ![h] = TRUE]
    /\ UNCHANGED <<wvars, closed, gpc, reply, delivered>>
    /\ UNCHANGED hvars
    /\ UNCHANGED ovars

\* A caller vanishes while it waits for its reply: its task is torn down and
\* response_receiver and both guards are dropped.
HandlerVanish(h) ==
    /\ hpc[h] = "wait"
    /\ reply[h] = NoRes
    /\ hpc' = [hpc EXCEPT ![h] = "gone"]
    /\ wlock' = 0
    /\ mutex' = 0
    /\ UNCHANGED <<hcmd, hres, panicAt>>
    /\ UNCHANGED <<wvars, closed, gpc, reply, delivered, qexpired>>
    /\ UNCHANGED ovars

Next ==
    \/ WorkerNext
    \/ WorkerExit
    \/ GuardNext
    \/ \E h \in Handlers : HandlerNext(h)
    \/ \E h \in Handlers : QueueDeadline(h)
    \/ Shutdown

Spec == Init /\ [][Next]_vars

\* The program with callers that may vanish while waiting for their reply.
NextVanish == Next \/ \E h \in Handlers : HandlerVanish(h)

SpecVanish == Init /\ [][NextVanish]_vars

\* Scheduling: every thread that can take a step eventually takes one, a timer
\* that is not cancelled expires, and the write lock is granted in FIFO order.
\* Message arrival, shutdown and the clock are not forced.
Fairness ==
    /\ WF_vars(WorkerNext)
    /\ WF_vars(WorkerExit)
    /\ WF_vars(GuardNext)
    /\ \A h \in Handlers :
          /\ SF_vars(HandlerWriteLock(h))
          /\ WF_vars(HandlerLock(h) \/ HandlerTrySend(h) \/ HandlerRecv(h)
                        \/ HandlerReturn(h))

FairSpec == Init /\ [][Next]_vars /\ Fairness

----------------------------------------------------------------------------
(* Properties.                                                             *)

RunStringPcs == {"parse", "run", "cancel", "join"}

\* C1: at most one request is being processed by the evaluator at any time:
\* at most one run_string invocation is active, and it is the one the worker
\* thread is inside, on the request the worker took from the channel.
C1_MutualExclusion ==
    /\ Cardinality(running) <= 1
    /\ running # {} => (wpc \in RunStringPcs /\ running = {cur})
    /\ slot # 0 => running = {}

\* C1 witness: the evaluator is running one caller's command while another
\* caller is in the middle of its own submit.
C1_Witness ==
    /\ wpc = "run"
    /\ running = {cur}
    /\ \E h \in Handlers : h # cur /\ hpc[h] \in {"wlock", "mlock", "send"}

Submitted(h) == hcmd[h] # ""

Finished(h) == hpc[h] \in {"done", "panicked"}

\* C2: every caller whose submit has ended received exactly one result, and
\* that result is the outcome of its own command.
C2_ExactlyOneOwnResult ==
    \A h \in Handlers :
        (Submitted(h) /\ Finished(h)) =>
            /\ delivered[h] = 1
            /\ hres[h].kind # "none"
            /\ hres[h].of = h

\* What does hold of reply routing: a submit that returns returns the one
\* result the worker produced from the caller's own command.
RoutingOfReturnedSubmits ==
    \A h \in Handlers :
        /\ delivered[h] <= 1
        /\ reply[h] # NoRes => (reply[h].of = h /\ delivered[h] = 1)
        /\ hpc[h] = "done" => (hres[h] = reply[h] /\ hres[h].of = h)

\* The worker thread has entered its loop and has not ended.
WorkerStarted == wpc \notin {"init", "initfail", "panicked", "exited"}

\* C3: once the worker has started, a request whose caller got access to the
\* queue (and so did not take the queue-timeout path) is eventually answered
\* with a result.
C3_EventualResponse ==
    \A h \in Handlers :
        (hpc[h] = "send" /\ WorkerStarted) ~> (hres[h].kind # "none")

\* C4: a caller that holds the right to enqueue always completes the handoff:
\* no try_send ever fails.
C4_HandoffSucceeds == \A h \in Handlers : panicAt[h] = ""

\* C5: a caller whose queue-access deadline expired while the worker was busy
\* with another caller's command leaves its wait only with the
\* queue-access-timeout error.
C5_TimeoutOnExpiry ==
    \A h \in Handlers :
        qexpired[h] =>
            \/ hpc[h] \in {"wlock", "mlock"}
            \/ hres[h] = ErrRes(QueueTimeoutText, 0)

\* The queue-access-timeout branch never runs: the sender mutex is reached only
\* under the write lock, so it is always free when a handler asks for it.
QueueTimeoutUnreachable ==
    \A h \in Handlers :
        /\ hres[h].text # QueueTimeoutText
        /\ hpc[h] = "mlock" => mutex = 0

\* C7: once the worker has started, no submit ends in a panic and the worker
\* thread does not panic.
C7_NoPanicAfterStart ==
    /\ wpc # "panicked"
    /\ \A h \in Handlers : hpc[h] = "panicked" => panicAt[h] \in {"init", "initfail"}

\* C8: a failed delivery does not stop the worker: the worker thread never
\* dies of a panic, and its loop has ended only if the request channel's
\* sending side is closed.
C8_DeliveryFailureTolerated ==
    /\ wpc # "panicked"
    /\ wpc = "exited" => closed

\* C9: after a failed initialization no handler begins a submit and no handler
\* attempts the handoff to the worker.
C9_NoSubmitAfterInitFailure ==
    [][wpc = "initfail" =>
         \A h \in Handlers :
             /\ hpc[h] = "idle" => hpc'[h] \in {"idle", "ignored"}
             /\ hpc[h] = "send" => hpc'[h] = "send"]_vars

\* C10: while run_string is at a command that does not parse, no interruptor
\* thread exists, and its next step returns the parse error with no thread
\* spawned, the interruptor flag untouched and the definitions unchanged.
C10_ParseFailureShortCircuits ==
    [][(wpc = "parse" /\ ~Parses(hcmd[cur])) =>
         /\ gpc = "none" /\ gpc' = "none"
         /\ intr' = intr
         /\ env' = env /\ env = envAtEntry
         /\ evalres' = NoRes
         /\ wpc' \in {"parse", "deliver"}
         /\ wpc' = "deliver" => res' = ErrRes("parse error", cur)]_vars

\* C10 witness: run_string has returned the parse error for a command that
\* does not parse, with definitions accumulated by an earlier command.
C10_Witness ==
    /\ wpc = "deliver"
    /\ hcmd[cur] = "bad"
    /\ res = ErrRes("parse error", cur)
    /\ env
    /\ gpc = "none"

\* C11: a command whose evaluation ended by itself before the execution
\* deadline has the evaluator's own outcome as the value of run_string, the
\* value that rc.send hands to its caller.
C11_FastCommandsReturnValue ==
    (wpc = "deliver" /\ intime) => res = evalres

\* C12: whenever parse_compile_run failed, by an error of the command or by an
\* interruption, the value of run_string is the evaluator's own error.
C12_FailureTextFromEvaluator ==
    (wpc = "deliver" /\ evalres.kind = "err") => res = evalres


\* The recovery itself: once a command that loops forever is running, its
\* evaluation is interrupted, the caller gets an error result and the worker
\* is back in recv.recv().
RunawayRunning(h) == cur = h /\ wpc = "run" /\ hcmd[h] = "loop"

RecoveryToIdle ==
    \A h \in Handlers :
        /\ RunawayRunning(h) ~> (evalres = ErrRes("interrupted", h))
        /\ RunawayRunning(h) ~> (hres[h].kind = "err" /\ wpc = "recv")

\* C13: recovery after a runaway command: when a command that loops forever is
\* running while another caller waits to submit, the looping command's caller
\* eventually gets an error result and the worker then takes the waiting
\* caller's command.
C13_RecoveryAfterRunaway ==
    \A h \in Handlers : \A g \in Handlers \ {h} :
        (RunawayRunning(h) /\ hpc[g] = "wlock")
            ~> (hres[h].kind = "err" /\ cur = g)


\* C14: state persistence: the worker's one interpreter is never recreated or
\* reset between commands: its state changes only inside parse_compile_run, a
\* definition once made stays, the state a command is given on entry is the
\* state the commands before it left, and a command that uses the definition
\* succeeds exactly when the definition was there on entry.
C14_StatePersistence ==
    [][ /\ env => env'
        /\ (env' # env) => wpc = "run"
        /\ (wpc = "recv" /\ wpc' = "parse") => envAtEntry' = env
        /\ (wpc = "run" /\ wpc' = "cancel" /\ hcmd[cur] = "use"
                /\ evalres' # ErrRes("interrupted", cur))
              => (evalres' = OkRes("10", cur)) = envAtEntry ]_vars

\* A command that uses the definition has evaluated to its value after the
\* command of another caller made the definition.
C14_Witness ==
    /\ cur # 0
    /\ hcmd[cur] = "use"
    /\ evalres = OkRes("10", cur)
    /\ \E g \in Handlers \ {cur} : hcmd[g] = "def" /\ hpc[g] = "done"


\* C15: cancel-then-join ordering: whenever the worker is about to deliver the
\* outcome of a command that passed parsing, run_string has signalled the
\* interruptor thread and joined it.
C15_CancelThenJoin ==
    (wpc = "deliver" /\ Parses(hcmd[cur])) => joined


\* C16: no stale interrupt: an interruptor thread calls interrupt() only while
\* the run_string that spawned it has parsed its command and has not returned,
\* and a thread that may still call it exists only then; none does while a
\* later command is parsed or run.
C16_NoStaleInterrupt ==
    [][ /\ (gasserts' = gasserts + 1) => (cur # 0 /\ wpc \in {"run", "cancel", "join"})
        /\ (gpc' \in {"waiting", "fired"}) => wpc' \in {"run", "cancel", "join"} ]_vars

\* The timer fired late: interrupt() was called while run_string waits in join.
C16_Witness ==
    wpc = "join" /\ gpc = "interrupted" /\ gasserts = 1

\* C17: the interruptor thread fires at most once and not after cancel: it
\* calls interrupt() at most once, only after recv_timeout timed out with no
\* message, and once the message is there while it still waits it returns
\* without touching the interruptor flag.
C17_FiresAtMostOnce ==
    [][ /\ gasserts' <= 1
        /\ (gasserts' > gasserts) => gpc = "fired"
        /\ (gpc' = "fired" /\ gpc # "fired") => (gpc = "waiting" /\ ~gmsg)
        /\ (gpc = "waiting" /\ gmsg)
              => (gpc' \in {"waiting", "closing"} /\ intr' = intr /\ gasserts' = 0) ]_vars

\* The message arrived first: the thread has finished without interrupting.
C17_Witness ==
    wpc = "join" /\ gmsg /\ gpc = "exited" /\ gasserts = 0

\* C18: thread bound: besides the worker at most one interruptor thread is
\* alive in any state.
C18_ThreadBound ==
    liveGuards <= 1

\* Handlers that hold the data write lock's section: past ctx.data.write() and
\* not yet returned.
InWriteSection == {h \in Handlers : hpc[h] \in {"mlock", "send", "wait", "say"}}

\* C19: callers are serialised by the data write lock: at most one handler is
\* between ctx.data.write() and its return, it is the holder of the lock, the
\* sender's mutex is free whenever a handler asks for it and held by nobody
\* else, and no handler ends with the queue-access timeout text.
C19_SerialisedByWriteLock ==
    /\ Cardinality(InWriteSection) <= 1
    /\ \A h \in InWriteSection : wlock = h
    /\ \A h \in Handlers : hpc[h] = "mlock" => mutex = 0
    /\ mutex # 0 => mutex = wlock
    /\ \A h \in Handlers : hres[h].text # QueueTimeoutText

\* One handler waits for its reply holding the lock while the other waits for
\* the lock and the worker runs the first one's command.
C19_Witness ==
    \E h \in Handlers : \E g \in Handlers \ {h} :
        hpc[h] = "wait" /\ wlock = h /\ hpc[g] = "wlock" /\ wpc = "run" /\ cur = h

====
